---- MODULE Spec2Model ----
(***************************************************************************)
(* HIP Transfer Streams (hits.c): one process that parses its options,     *)
(* allocates one stream, two events and two buffers per requested          *)
(* transfer, issues n_iter asynchronous copies on every transfer,          *)
(* synchronises the devices, prints the bandwidth and frees host memory.   *)
(*                                                                         *)
(* The HIP runtime, libnuma, sysfs and malloc are the environment: every   *)
(* call into them returns one of the results it can return, chosen by \E.  *)
(* Variables that are not fields of the program are logs of the calls the  *)
(* program made (named *_log) and of its exit.                             *)
(***************************************************************************)
EXTENDS Integers, Sequences, FiniteSets, TLC

(***************************************************************************)
(* Program constants                                                       *)
(***************************************************************************)
N_SIZE_MAX == 1073741824
N_SIZE_DEFAULT == N_SIZE_MAX
N_ITER_DEFAULT == 100
hipSuccess == 0
\* exit status of argp_usage (argp_err_exit_status, EX_USAGE)
EX_USAGE == 64
\* status of the exit(1) calls
EXIT_ERROR == 1
\* exit_code while the process is running
RUNNING == -1

(***************************************************************************)
(* Bounds of the model                                                     *)
(***************************************************************************)
\* largest argc: the command line holds at most MaxArgc - 1 options
MaxArgc == 3

\* the nodes a numa_node file may name
NumaNodes == {0}

\* failure codes a HIP call may return (hipErrorInvalidDevice)
HipErrors == {101}
HipResults == {hipSuccess} \cup HipErrors

\* long and size_t are 64 bits wide in the program. TLC's integers are 32
\* bits wide, so both are modelled 31 bits wide: LONG_MAX is the largest
\* long, and a negative long converts to a size_t far above N_SIZE_MAX.
LONG_MAX == 2147483647
SIZE_MAX == LONG_MAX

ToSizeT(n) == IF n >= 0 THEN n ELSE SIZE_MAX + (n + 1)

(***************************************************************************)
(* strtol(nptr, &endptr, 10) on a string given as a sequence of characters *)
(***************************************************************************)
Digits == {"0", "1", "2", "3", "4", "5", "6", "7", "8", "9"}

DigitVal(c) ==
    CASE c = "0" -> 0 [] c = "1" -> 1 [] c = "2" -> 2 [] c = "3" -> 3
      [] c = "4" -> 4 [] c = "5" -> 5 [] c = "6" -> 6 [] c = "7" -> 7
      [] c = "8" -> 8 [] c = "9" -> 9

\* scans the digits of s from position k; acc is the value so far, ovf is
\* TRUE once the value no longer fits a long
RECURSIVE ScanDigits(_, _, _, _)
ScanDigits(s, k, acc, ovf) ==
    IF k > Len(s) \/ s[k] \notin Digits
    THEN [end |-> k, acc |-> acc, ovf |-> ovf]
    ELSE LET d == DigitVal(s[k])
         IN  IF ovf \/ acc > (LONG_MAX - d) \div 10
             THEN ScanDigits(s, k + 1, acc, TRUE)
             ELSE ScanDigits(s, k + 1, acc * 10 + d, FALSE)

\* val: the returned long; consumed: endptr - nptr; erange: errno == ERANGE;
\* noconv: no digits were found (0 is returned and endptr == nptr)
strtol(s) ==
    LET neg   == Len(s) >= 1 /\ s[1] = "-"
        first == IF neg \/ (Len(s) >= 1 /\ s[1] = "+") THEN 2 ELSE 1
        r     == ScanDigits(s, first, 0, FALSE)
    IN  IF r.end = first
        THEN [val |-> 0, consumed |-> 0, erange |-> FALSE, noconv |-> TRUE]
        ELSE [val |-> IF r.ovf THEN (IF neg THEN -LONG_MAX - 1 ELSE LONG_MAX)
                      ELSE IF neg THEN -r.acc ELSE r.acc,
              consumed |-> r.end - 1,
              erange |-> r.ovf,
              noconv |-> FALSE]

(***************************************************************************)
(* strtok(arg, ","): the tokens of s, each with the offset of its first    *)
(* character in s (a pointer into the argument)                            *)
(***************************************************************************)
RECURSIVE TokenEnd(_, _)
TokenEnd(s, k) == IF k > Len(s) \/ s[k] = "," THEN k ELSE TokenEnd(s, k + 1)

RECURSIVE strtok(_, _)
strtok(s, k) ==
    IF k > Len(s) THEN <<>>
    ELSE IF s[k] = "," THEN strtok(s, k + 1)
    ELSE LET e == TokenEnd(s, k)
         IN  <<[at |-> k, text |-> SubSeq(s, k, e - 1)]>> \o strtok(s, e + 1)

(***************************************************************************)
(* Option arguments the command line may hold                              *)
(***************************************************************************)
Overflowing == <<"9","9","9","9","9","9","9","9","9","9",
                 "9","9","9","9","9","9","9","9","9","9">>
IdArgs   == {<<"0">>, <<"1">>, <<"-", "1">>, <<"x">>, Overflowing}
IterArgs == {<<"0">>, <<"1">>, <<"2">>, <<"-", "1">>, Overflowing}
SizeArgs == {<<"1", "0", "2", "4">>, <<"-", "1">>,
             <<"1","0","7","3","7","4","1","8","2","5">>, Overflowing}
PairArgs == {<<"1", ",", "0">>, <<"0", ",", "1">>, <<"1">>, <<>>,
             <<"1", ",", "x">>, <<"x", ",", "0">>, <<"1", ",", "-", "1">>,
             <<"1", ",", "0", ",", "1">>}

(***************************************************************************)
(* State                                                                   *)
(***************************************************************************)
VARIABLES
    argc,            \* main's argc
    n_parsed,        \* options argp_parse has handed to parse_opt
    hits,            \* Hits_t: transfer, n_transfers, n_iter, n_size, alloc_flags
    pc,              \* position of the main thread
    i, j,            \* loop indices of transfer_init, main and fini
    is_transfering,  \* main's flag read by the heartbeat thread
    thread,          \* position of the heartbeat thread ("none": not created)
    is_access,       \* dtod_transfer_init's is_access
    cur_device,      \* the device hipSetDevice made current
    numa_preferred,  \* the node numa_set_preferred made preferred (-1: none)
    streams,         \* what was enqueued on each transfer's stream
    lookup_log,      \* NUMA lookups: [chan, ok]
    pref_log,        \* numa_set_preferred calls: [chan, node]
    host_log,        \* host buffers acquired: [chan, pinned, pref, bytes, what]
    dev_log,         \* device buffers acquired: [chan, dev, bytes, what]
    check_log,       \* hipDeviceCanAccessPeer calls: [chan, access]
    peer_log,        \* hipDeviceEnablePeerAccess calls: [dev, peer, ok]
    sync_log,        \* hipDeviceSynchronize calls: [chan, dev]
    report_log,      \* results printed: [chan, iters, start, stop, dt_msec, dt_sec, gbps]
    free_log,        \* buffers released: [chan, what, by]
    n_calls,         \* HIP calls made
    fail_code,       \* the failure code a HIP call returned (hipSuccess: none)
    fail_calls,      \* n_calls when that call returned
    exit_code        \* exit status (RUNNING while the process runs)

vars == <<argc, n_parsed, hits, pc, i, j, is_transfering, thread, is_access,
          cur_device, numa_preferred, streams, lookup_log, pref_log, host_log,
          dev_log, check_log, peer_log, sync_log, report_log, free_log,
          n_calls, fail_code, fail_calls, exit_code>>

\* everything but the main thread's position, its exit and the HIP call log
mem == <<hits, i, j, is_transfering, thread, is_access, cur_device,
         numa_preferred, streams, lookup_log, pref_log, host_log, dev_log,
         check_log, peer_log, sync_log, report_log, free_log>>

Flags == {"is_numa_aware", "is_pinned"}
Capacity == MaxArgc - 1
Chans == 1..Capacity

\* values an uninitialised is_started and numa_node may hold
GarbageBool == BOOLEAN
GarbageInt == {-1, 0}

\* a slot of the malloc'ed transfer array once parse_opt filled type, device
\* and device2; the other fields are still what malloc returned
Transfer_t(type, device, device2, started, node) ==
    [type |-> type, device |-> device, device2 |-> device2,
     dest |-> "uninit", src |-> "uninit", stream |-> "uninit",
     start |-> "uninit", stop |-> "uninit",
     numa_node |-> node, is_started |-> started,
     prop_device |-> FALSE, prop_device2 |-> FALSE]

\* the state init() leaves at the call of argp_parse (lines 368-379)
Init ==
    /\ argc \in 1..MaxArgc
    /\ n_parsed = 0
    /\ hits = [transfer |-> <<>>, n_transfers |-> 0, n_iter |-> N_ITER_DEFAULT,
               n_size |-> N_SIZE_DEFAULT, alloc_flags |-> Flags]
    /\ pc = "parse"
    /\ i = 0
    /\ j = 0
    /\ is_transfering = FALSE
    /\ thread = "none"
    /\ is_access = 0
    /\ cur_device = 0
    /\ numa_preferred = -1
    /\ streams = [c \in Chans |-> <<>>]
    /\ lookup_log = <<>>
    /\ pref_log = <<>>
    /\ host_log = <<>>
    /\ dev_log = <<>>
    /\ check_log = <<>>
    /\ peer_log = <<>>
    /\ sync_log = <<>>
    /\ report_log = <<>>
    /\ free_log = <<>>
    /\ n_calls = 0
    /\ fail_code = hipSuccess
    /\ fail_calls = 0
    /\ exit_code = RUNNING

(***************************************************************************)
(* Leaving the process                                                     *)
(***************************************************************************)
\* exit(code)
Exit(code) == pc' = "exited" /\ exit_code' = code

\* checkHip(ret) as the last thing a step does: exit(code) unless the call
\* succeeded, else go on at next
assertHip(code, next) ==
    IF code # hipSuccess
    THEN Exit(code)
    ELSE pc' = next /\ exit_code' = exit_code

\* a step makes k HIP calls in a row, each under checkHip; f = 0: all
\* succeed; f in 1..k: call f returns e and the calls after it are not made
Made(f, k) == IF f = 0 THEN k ELSE f
Passed(f, n) == f = 0 \/ f > n
Result(f, e) == IF f = 0 THEN hipSuccess ELSE e

HipCalls(f, e, k, next) ==
    /\ n_calls' = n_calls + Made(f, k)
    /\ fail_code' = IF f = 0 THEN fail_code ELSE e
    /\ fail_calls' = IF f = 0 THEN fail_calls ELSE n_calls + f
    /\ assertHip(Result(f, e), next)

NoHipCall == UNCHANGED <<n_calls, fail_code, fail_calls>>

(***************************************************************************)
(* parse_opt                                                               *)
(***************************************************************************)
CanParse == pc = "parse" /\ n_parsed < argc - 1

\* errno after strtol(arg): ERANGE when the value does not fit; when no
\* digit was found the C library may set EINVAL or leave errno alone
Errno(r) == IF r.erange THEN {"ERANGE"}
            ELSE IF r.noconv THEN {"EINVAL", "0"} ELSE {"0"}

ParseExit ==
    /\ Exit(EXIT_ERROR)
    /\ NoHipCall
    /\ UNCHANGED <<argc, n_parsed, mem>>

ParseOk(h) ==
    /\ hits' = h
    /\ n_parsed' = n_parsed + 1
    /\ NoHipCall
    /\ UNCHANGED <<argc, pc, exit_code, i, j, is_transfering, thread,
                   is_access, cur_device, numa_preferred, streams, lookup_log,
                   pref_log, host_log, dev_log, check_log, peer_log, sync_log,
                   report_log, free_log>>

AddTransfer(type, device, device2, started, node) ==
    [hits EXCEPT !.transfer = Append(@, Transfer_t(type, device, device2,
                                                    started, node)),
                 !.n_transfers = @ + 1]

\* case 'd' / case 'h' without the assignment device2 = -1 (lines 136, 149):
\* the field keeps what malloc left
ParseDirectDevice2Unset(type) ==
    \E arg \in IdArgs, started \in GarbageBool, node \in GarbageInt :
         LET r == strtol(arg)
         IN  \E errno \in Errno(r) :
               IF errno = "EINVAL" \/ errno = "ERANGE" \/ r.val < 0
               THEN ParseExit
               ELSE ParseOk(AddTransfer(type, r.val, 0, started, node))

\* the body shared by case 'd' and case 'h'
ParseDirect(type) ==
    \E arg \in IdArgs, started \in GarbageBool, node \in GarbageInt :
         LET r == strtol(arg)
         IN  \E errno \in Errno(r) :
               IF errno = "EINVAL" \/ errno = "ERANGE" \/ r.val < 0
               THEN ParseExit
               ELSE ParseOk(AddTransfer(type, r.val, -1, started, node))

\* case 'd'
parse_opt_d ==
    /\ CanParse
    /\ ParseDirect("DTOH")

\* case 'h'
parse_opt_h ==
    /\ CanParse
    /\ ParseDirect("HTOD")

\* case 'i'
parse_opt_i ==
    /\ CanParse
    /\ \E arg \in IterArgs :
         LET r == strtol(arg)
         IN  \E errno \in Errno(r) :
               IF errno = "EINVAL" \/ errno = "ERANGE" \/ r.val < 0
               THEN ParseExit
               ELSE ParseOk([hits EXCEPT !.n_iter = r.val])

\* case 'n'
parse_opt_n ==
    /\ CanParse
    /\ ParseOk([hits EXCEPT !.alloc_flags = @ \ {"is_numa_aware"}])

\* case 'm'
parse_opt_m ==
    /\ CanParse
    /\ ParseOk([hits EXCEPT !.alloc_flags = @ \ {"is_pinned"}])

\* case 'p'
parse_opt_p ==
    /\ CanParse
    /\ \E arg \in PairArgs, started \in GarbageBool, node \in GarbageInt :
         LET toks == strtok(arg, 1)
             has1 == Len(toks) >= 1
             has2 == Len(toks) >= 2
             has3 == Len(toks) >= 3
             r1   == IF has1 THEN strtol(toks[1].text)
                     ELSE [val |-> -1, consumed |-> 0, erange |-> FALSE,
                           noconv |-> FALSE]
             r2   == IF has2 THEN strtol(toks[2].text)
                     ELSE [val |-> -1, consumed |-> 0, erange |-> FALSE,
                           noconv |-> FALSE]
         IN  \E errno1 \in Errno(r1) :
               IF \/ errno1 = "EINVAL" \/ errno1 = "ERANGE"
                  \/ (has1 /\ r1.consumed = 0)
                  \/ r1.val < 0
               THEN ParseExit
               ELSE \E errno2 \in Errno(r2) :
                      IF \/ errno2 = "EINVAL" \/ errno2 = "ERANGE"
                         \/ (has2 /\ r2.consumed = 0)
                         \/ r2.val < 0
                      THEN ParseExit
                      ELSE IF has3 /\ toks[3].at # toks[2].at + r2.consumed
                      THEN ParseExit
                      ELSE ParseOk(AddTransfer("DTOD", r1.val, r2.val,
                                               started, node))

\* case 's'
parse_opt_s ==
    /\ CanParse
    /\ \E arg \in SizeArgs :
         LET r == strtol(arg)
             h == [hits EXCEPT !.n_size = r.val]
         IN  \E errno \in Errno(r) :
               IF errno = "EINVAL" \/ errno = "ERANGE" \/ h.n_iter < 0
               THEN ParseExit
               ELSE IF h.n_size > N_SIZE_MAX
               THEN ParseExit
               ELSE ParseOk(h)

\* case ARGP_KEY_END, and the return of argp_parse into transfer_init
parse_opt_end ==
    /\ pc = "parse"
    /\ n_parsed = argc - 1
    /\ IF hits.n_transfers = 0
       THEN Exit(EX_USAGE) /\ UNCHANGED i
       ELSE pc' = "common" /\ i' = 0 /\ exit_code' = exit_code
    /\ NoHipCall
    /\ UNCHANGED <<argc, n_parsed, hits, j, is_transfering, thread, is_access,
                   cur_device, numa_preferred, streams, lookup_log, pref_log,
                   host_log, dev_log, check_log, peer_log, sync_log,
                   report_log, free_log>>

(***************************************************************************)
(* transfer_init: one transfer after the other, hits.transfer[i]           *)
(***************************************************************************)
\* the Transfer_t the loop index i names (the array is 0-based in the code)
T == hits.transfer[i + 1]

SetT(t) == [hits EXCEPT !.transfer[i + 1] = t]

\* the end of one round of transfer_init's loop (lines 340-356) and, after
\* the last round, the return through init() into main (lines 383, 505)
NextTransferOnlyFirst == "main"
NextTransfer == IF i + 1 < hits.n_transfers THEN "common" ELSE "main"

AfterCommon(type) ==
    IF type = "DTOD" THEN "dtod_check" ELSE "numa"

\* _transfer_init_common
transfer_init_common ==
    /\ pc = "common"
    /\ LET t  == T
           d2 == IF t.device2 >= 0 THEN 1 ELSE 0
           k  == 5 + d2
       IN  \E f \in 0..k, e \in HipErrors :
             /\ hits' = SetT([t EXCEPT
                    !.numa_node = -1,
                    !.is_started = FALSE,
                    !.prop_device = Passed(f, 1),
                    !.prop_device2 = (d2 = 1 /\ Passed(f, 2)),
                    !.start = IF Passed(f, 3 + d2) THEN "created" ELSE @,
                    !.stop = IF Passed(f, 4 + d2) THEN "created" ELSE @,
                    !.stream = IF Passed(f, 5 + d2) THEN "created" ELSE @])
             /\ cur_device' = IF Passed(f, 2 + d2) THEN t.device ELSE cur_device
             /\ HipCalls(f, e, k, AfterCommon(t.type))
    /\ UNCHANGED <<argc, n_parsed, i, j, is_transfering, thread, is_access,
                   numa_preferred, streams, lookup_log, pref_log, host_log,
                   dev_log, check_log, peer_log, sync_log, report_log,
                   free_log>>

\* what fopen and fscanf of the device's numa_node file may give: no file,
\* a file without an integer (fscanf returns 0 or EOF), a file with a node
LookupResults ==
    {[file |-> FALSE, ret |-> 0, node |-> -1],
     [file |-> TRUE, ret |-> 0, node |-> -1]}
    \cup {[file |-> TRUE, ret |-> 1, node |-> n] : n \in NumaNodes}

NumaAffinityAnyRet(t, look) ==
    IF ~look.file
    THEN <<t.numa_node, <<>>>>
    ELSE <<look.node, <<[chan |-> i, node |-> look.node]>>>>

\* set_numa_affinity once fopen and fscanf gave look: <<t->numa_node, the
\* calls of numa_set_preferred>>
NumaAffinity(t, look) ==
    IF ~look.file
    THEN <<t.numa_node, <<>>>>
    ELSE IF look.ret = 1
    THEN <<look.node, <<[chan |-> i, node |-> look.node]>>>>
    ELSE <<t.numa_node, <<>>>>

\* lines 276-277 and 295-296: set_numa_affinity(t) if alloc_flags has
\* is_numa_aware
set_numa_affinity ==
    /\ pc = "numa"
    /\ IF "is_numa_aware" \in hits.alloc_flags
       THEN \E look \in LookupResults :
              LET na == NumaAffinity(T, look)
              IN  /\ hits' = SetT([T EXCEPT !.numa_node = na[1]])
                  /\ pref_log' = pref_log \o na[2]
                  /\ numa_preferred' = IF na[2] # <<>> THEN na[2][1].node
                                       ELSE numa_preferred
                  /\ lookup_log' = Append(lookup_log,
                                     [chan |-> i, ok |-> look.file /\ look.ret = 1])
       ELSE UNCHANGED <<hits, pref_log, numa_preferred, lookup_log>>
    /\ pc' = IF T.type = "DTOH" THEN "dtoh" ELSE "htod"
    /\ NoHipCall
    /\ UNCHANGED <<argc, n_parsed, i, j, is_transfering, thread, is_access,
                   cur_device, streams, host_log, dev_log, check_log,
                   peer_log, sync_log, report_log, free_log, exit_code>>

\* status of the abort() of a failed assert (128 + SIGABRT)
ABORTED == 134

\* dtoh_transfer_init and htod_transfer_init from the host allocation on
\* (lines 279-288, 298-307): the host buffer is t->dest for DTOH, t->src
\* for HTOD; null: the host allocation returned NULL
direct_transfer_init(type) ==
    LET t      == T
        pinned == "is_pinned" \in hits.alloc_flags
        k      == IF pinned THEN 2 ELSE 1
        bytes  == ToSizeT(hits.n_size)
    IN  \E f \in 0..k, e \in HipErrors, null \in BOOLEAN :
          LET hostErr == pinned /\ f = 1
              hostOk  == ~hostErr /\ ~null
              devOk   == hostOk /\ f = 0
              host    == IF hostErr THEN "uninit"
                         ELSE IF null THEN "null"
                         ELSE IF pinned THEN "pinned" ELSE "pageable"
              dev     == IF devOk THEN "device" ELSE "uninit"
          IN  /\ hits' = SetT(IF type = "DTOH"
                              THEN [t EXCEPT !.dest = host, !.src = dev]
                              ELSE [t EXCEPT !.src = host, !.dest = dev])
              /\ host_log' = IF hostOk
                             THEN Append(host_log,
                                    [chan |-> i, pinned |-> pinned,
                                     pref |-> numa_preferred, bytes |-> bytes,
                                     what |-> IF type = "DTOH" THEN "dest"
                                              ELSE "src"])
                             ELSE host_log
              /\ dev_log' = IF devOk
                            THEN Append(dev_log,
                                   [chan |-> i, dev |-> cur_device,
                                    bytes |-> bytes,
                                    what |-> IF type = "DTOH" THEN "src"
                                             ELSE "dest"])
                            ELSE dev_log
              /\ IF hostErr \/ ~null
                 THEN /\ HipCalls(f, e, k, NextTransfer)
                      /\ i' = IF f = 0 THEN i + 1 ELSE i
                 ELSE \* assert(t->dest != NULL) fails
                      /\ pc' = "aborted"
                      /\ exit_code' = ABORTED
                      /\ n_calls' = n_calls + (k - 1)
                      /\ UNCHANGED <<fail_code, fail_calls, i>>
              /\ UNCHANGED <<argc, n_parsed, j, is_transfering, thread,
                             is_access, cur_device, numa_preferred, streams,
                             lookup_log, pref_log, check_log, peer_log,
                             sync_log, report_log, free_log>>

dtoh_transfer_init ==
    /\ pc = "dtoh"
    /\ direct_transfer_init("DTOH")

htod_transfer_init ==
    /\ pc = "htod"
    /\ direct_transfer_init("HTOD")

\* line 317: if (!is_access)
NoAccessIgnored(a) == FALSE
NoAccess(a) == a = 0

\* dtod_transfer_init, lines 314-322: the peer-access check. The result of
\* hipDeviceCanAccessPeer is not passed to checkHip; when the call fails
\* is_access keeps the 0 it was initialised with
dtod_transfer_init_check ==
    /\ pc = "dtod_check"
    /\ \E r \in HipResults, access \in {0, 1} :
         LET a == IF r = hipSuccess THEN access ELSE 0
         IN  /\ is_access' = a
             /\ check_log' = Append(check_log, [chan |-> i, access |-> a])
             /\ n_calls' = n_calls + 1
             /\ fail_code' = IF r = hipSuccess THEN fail_code ELSE r
             /\ fail_calls' = IF r = hipSuccess THEN fail_calls ELSE n_calls + 1
             /\ IF NoAccess(a)
                THEN Exit(EXIT_ERROR)
                ELSE pc' = "dtod_alloc" /\ exit_code' = exit_code
    /\ UNCHANGED <<argc, n_parsed, hits, i, j, is_transfering, thread,
                   cur_device, numa_preferred, streams, lookup_log, pref_log,
                   host_log, dev_log, peer_log, sync_log, report_log,
                   free_log>>

\* dtod_transfer_init, lines 324-329: the two device buffers
dtod_transfer_init_alloc ==
    /\ pc = "dtod_alloc"
    /\ LET t     == T
           bytes == ToSizeT(hits.n_size)
       IN  \E f \in 0..5, e \in HipErrors :
             /\ hits' = SetT([t EXCEPT
                    !.dest = IF Passed(f, 2) THEN "device" ELSE @,
                    !.src = IF Passed(f, 5) THEN "device" ELSE @])
             /\ cur_device' = IF Passed(f, 4) THEN t.device2
                              ELSE IF Passed(f, 1) THEN t.device
                              ELSE cur_device
             /\ dev_log' = dev_log
                  \o (IF Passed(f, 2)
                      THEN <<[chan |-> i, dev |-> t.device, bytes |-> bytes,
                              what |-> "dest"]>>
                      ELSE <<>>)
                  \o (IF Passed(f, 5)
                      THEN <<[chan |-> i, dev |-> t.device2, bytes |-> bytes,
                              what |-> "src"]>>
                      ELSE <<>>)
             /\ peer_log' = IF Passed(f, 2)
                            THEN Append(peer_log,
                                        [dev |-> t.device, peer |-> t.device2,
                                         ok |-> Passed(f, 3)])
                            ELSE peer_log
             /\ HipCalls(f, e, 5, NextTransfer)
             /\ i' = IF f = 0 THEN i + 1 ELSE i
    /\ UNCHANGED <<argc, n_parsed, j, is_transfering, thread, is_access,
                   numa_preferred, streams, lookup_log, pref_log, host_log,
                   check_log, sync_log, report_log, free_log>>

(***************************************************************************)
(* main                                                                    *)
(***************************************************************************)
\* main's constants (lines 506-508); n_bytes is a size_t
n_transfers == hits.n_transfers
n_iter == hits.n_iter
n_bytes == ToSizeT(hits.n_size)

\* lines 506-514: the heartbeat thread is started, then the issue loop is
\* entered (pthread_create is taken to succeed; its result is not checked)
main_start ==
    /\ pc = "main"
    /\ is_transfering' = TRUE
    /\ thread' = "test"
    /\ i' = 0
    /\ j' = 0
    /\ pc' = IF 0 < n_iter THEN "issue" ELSE "sync"
    /\ NoHipCall
    /\ UNCHANGED <<argc, n_parsed, hits, is_access, cur_device, numa_preferred,
                   streams, lookup_log, pref_log, host_log, dev_log, check_log,
                   peer_log, sync_log, report_log, free_log, exit_code>>

\* a stream's queue is kept run-length encoded: consecutive copies of the
\* same kind and size are one entry with their number n
Enqueue(q, op, kind, bytes) ==
    IF /\ Len(q) > 0
       /\ op = "copy"
       /\ q[Len(q)].op = "copy"
       /\ q[Len(q)].kind = kind
       /\ q[Len(q)].bytes = bytes
    THEN [q EXCEPT ![Len(q)].n = @ + 1]
    ELSE Append(q, [op |-> op, kind |-> kind, bytes |-> bytes, n |-> 1])

EnqueueIf(cond, q, op, kind, bytes) ==
    IF cond THEN Enqueue(q, op, kind, bytes) ELSE q

\* the two loops nested the other way round: all iterations of a transfer
\* before the next transfer
IssueNextTransferMajor ==
    IF i + 1 < n_iter THEN <<i + 1, j, "issue">>
    ELSE IF j + 1 < n_transfers THEN <<0, j + 1, "issue">>
    ELSE <<0, 0, "sync">>

\* the outer loop left after its first round
IssueNextOneRound ==
    IF j + 1 < n_transfers THEN <<i, j + 1, "issue">>
    ELSE <<0, 0, "sync">>

\* main's loops lines 517-525 after one transfer call returned
IssueNext ==
    IF j + 1 < n_transfers THEN <<i, j + 1, "issue">>
    ELSE IF i + 1 < n_iter THEN <<i + 1, 0, "issue">>
    ELSE <<0, 0, "sync">>

\* line 519
is_last_never == (i = n_iter)
\* the stop event recorded with the first copy instead of the last
is_last_first == (i = 0)
is_last == (i = n_iter - 1)

\* line 446 and line 473: t->is_started = true
MarkStartedSkipped(started) == started
MarkStarted(started) == TRUE

\* the body shared by direct_transfer and dtod_transfer: both record start
\* on the first call, submit one copy, and record stop when is_last_iter
transfer(t, kind, is_last_iter) ==
    LET s == IF ~t.is_started THEN 1 ELSE 0
        l == IF is_last_iter THEN 1 ELSE 0
        k == 2 + s + l
    IN  \E f \in 0..k, e \in HipErrors :
          LET q0 == streams[j + 1]
              q1 == EnqueueIf(s = 1 /\ Passed(f, 2), q0, "start", "event", 0)
              q2 == EnqueueIf(Passed(f, 2 + s), q1, "copy", kind, n_bytes)
              q3 == EnqueueIf(l = 1 /\ Passed(f, 3 + s), q2, "stop", "event", 0)
          IN  /\ cur_device' = IF Passed(f, 1) THEN t.device ELSE cur_device
              /\ streams' = [streams EXCEPT ![j + 1] = q3]
              /\ hits' = [hits EXCEPT !.transfer[j + 1].is_started =
                             IF s = 1 /\ Passed(f, 2) THEN MarkStarted(@) ELSE @]
              /\ i' = IF f = 0 THEN IssueNext[1] ELSE i
              /\ j' = IF f = 0 THEN IssueNext[2] ELSE j
              /\ HipCalls(f, e, k, IssueNext[3])
              /\ UNCHANGED <<argc, n_parsed, is_transfering, thread, is_access,
                             numa_preferred, lookup_log, pref_log, host_log,
                             dev_log, check_log, peer_log, sync_log,
                             report_log, free_log>>

direct_transfer ==
    /\ pc = "issue"
    /\ hits.transfer[j + 1].type # "DTOD"
    /\ transfer(hits.transfer[j + 1],
                IF hits.transfer[j + 1].type = "DTOH"
                THEN "hipMemcpyDeviceToHost" ELSE "hipMemcpyHostToDevice",
                is_last)

dtod_transfer ==
    /\ pc = "issue"
    /\ hits.transfer[j + 1].type = "DTOD"
    /\ transfer(hits.transfer[j + 1], "hipMemcpyPeer", is_last)

\* the synchronisation loop left after its first round
SyncNextFirstOnly == "completed"
\* line 528: the loop goes on while i < n_transfers
SyncNext == IF i + 1 < n_transfers THEN "sync" ELSE "completed"

\* lines 528-533, one round
main_synchronize ==
    /\ pc = "sync"
    /\ \E f \in 0..2, e \in HipErrors :
         /\ cur_device' = IF Passed(f, 1) THEN T.device ELSE cur_device
         /\ sync_log' = IF f = 0
                        THEN Append(sync_log, [chan |-> i, dev |-> T.device])
                        ELSE sync_log
         /\ i' = IF f = 0 THEN i + 1 ELSE i
         /\ HipCalls(f, e, 2, SyncNext)
    /\ UNCHANGED <<argc, n_parsed, hits, j, is_transfering, thread, is_access,
                   numa_preferred, streams, lookup_log, pref_log, host_log,
                   dev_log, check_log, peer_log, report_log, free_log>>

\* lines 535-536
main_completed ==
    /\ pc = "completed"
    /\ is_transfering' = FALSE
    /\ i' = 0
    /\ pc' = "report"
    /\ NoHipCall
    /\ UNCHANGED <<argc, n_parsed, hits, j, thread, is_access, cur_device,
                   numa_preferred, streams, lookup_log, pref_log, host_log,
                   dev_log, check_log, peer_log, sync_log, report_log,
                   free_log, exit_code>>

(***************************************************************************)
(* The figures main prints (lines 509, 545, 551, 555).  The C code works   *)
(* in float; here a value is the exact fraction <<numerator, denominator>> *)
(* in lowest terms, so the rounding of float is not part of the model.     *)
(***************************************************************************)
RECURSIVE GCD(_, _)
GCD(a, b) == IF b = 0 THEN a ELSE GCD(b, a % b)

Rat(n, d) == LET g == GCD(n, d) IN IF g = 0 THEN <<0, 1>> ELSE <<n \div g, d \div g>>

\* x * y, reduced crosswise before multiplying
RatMul(x, y) ==
    LET g1 == GCD(x[1], y[2])
        g2 == GCD(y[1], x[2])
    IN  IF x[1] = 0 \/ y[1] = 0 THEN <<0, 1>>
        ELSE <<(x[1] \div g1) * (y[1] \div g2), (x[2] \div g2) * (y[2] \div g1)>>

\* x / y for y > 0
RatDiv(x, y) == RatMul(x, <<y[2], y[1]>>)

\* the divisors 1E9 (line 509) and 1E3 (line 545)
GIGA == 1000000000
KILO == 1000

\* line 509: n_gbytes = (float)n_bytes / 1E9
GBytes(bytes) == Rat(bytes, GIGA)
n_gbytes == GBytes(n_bytes)
\* line 545: dt_sec = dt_msec / 1E3
Seconds(dt_msec) == Rat(dt_msec, KILO)

\* the printed figure without the factor n_iter
BandwidthOneIteration(gbytes, dt_sec, iters) == RatDiv(gbytes, dt_sec)
\* lines 551 and 555: n_gbytes / dt_sec * n_iter, in GB/s
Bandwidth(gbytes, dt_sec, iters) ==
    RatMul(RatDiv(gbytes, dt_sec), Rat(iters, 1))

\* what hipEventElapsedTime may store in dt_msec for two recorded events
ElapsedMs == {500, 2000}

\* a reporter that clears is_started of the transfer it has printed
main_report_clears_started ==
    /\ pc = "report"
    /\ \E f \in 0..2, e \in HipErrors, dt_msec \in ElapsedMs :
         /\ cur_device' = IF Passed(f, 1) THEN T.device ELSE cur_device
         /\ report_log' =
              IF f = 0
              THEN Append(report_log,
                          [chan |-> i, iters |-> n_iter,
                           start |-> i, stop |-> i, dt_msec |-> dt_msec,
                           dt_sec |-> Seconds(dt_msec),
                           gbps |-> Bandwidth(n_gbytes, Seconds(dt_msec),
                                              n_iter)])
              ELSE report_log
         /\ hits' = IF f = 0 THEN SetT([T EXCEPT !.is_started = FALSE])
                    ELSE hits
         /\ i' = IF f # 0 THEN i ELSE IF i + 1 < n_transfers THEN i + 1 ELSE 0
         /\ HipCalls(f, e, 2, IF i + 1 < n_transfers THEN "report" ELSE "fini")
    /\ UNCHANGED <<argc, n_parsed, j, is_transfering, thread, is_access,
                   numa_preferred, streams, lookup_log, pref_log, host_log,
                   dev_log, check_log, peer_log, sync_log, free_log>>

\* lines 539-555, one round
main_report ==
    /\ pc = "report"
    /\ \E f \in 0..2, e \in HipErrors, dt_msec \in ElapsedMs :
         /\ cur_device' = IF Passed(f, 1) THEN T.device ELSE cur_device
         /\ report_log' =
              IF f = 0
              THEN Append(report_log,
                          [chan |-> i, iters |-> n_iter,
                           start |-> i, stop |-> i, dt_msec |-> dt_msec,
                           dt_sec |-> Seconds(dt_msec),
                           gbps |-> Bandwidth(n_gbytes, Seconds(dt_msec),
                                              n_iter)])
              ELSE report_log
         /\ i' = IF f # 0 THEN i ELSE IF i + 1 < n_transfers THEN i + 1 ELSE 0
         /\ HipCalls(f, e, 2, IF i + 1 < n_transfers THEN "report" ELSE "fini")
    /\ UNCHANGED <<argc, n_parsed, hits, j, is_transfering, thread, is_access,
                   numa_preferred, streams, lookup_log, pref_log, host_log,
                   dev_log, check_log, peer_log, sync_log, free_log>>

\* every host buffer handed to free()
HostFreeAlwaysFree(pinned) == "free"
\* lines 401-406 and 409-414: the call that releases the host buffer
HostFree(pinned) == IF pinned THEN "hipHostFree" ELSE "free"

\* fini, one round of its loop (lines 394-419)
fini ==
    /\ pc = "fini"
    /\ LET t      == T
           pinned == "is_pinned" \in hits.alloc_flags
           k      == IF t.type # "DTOD" /\ pinned THEN 1 ELSE 0
       IN  \E f \in 0..k, e \in HipErrors :
             /\ free_log' =
                  IF t.type = "DTOD" \/ f # 0 THEN free_log
                  ELSE Append(free_log,
                         [chan |-> i,
                          what |-> IF t.type = "DTOH" THEN "dest" ELSE "src",
                          by |-> HostFree(pinned)])
             /\ hits' = IF t.type = "DTOD" \/ f # 0 THEN hits
                        ELSE IF t.type = "DTOH"
                        THEN SetT([t EXCEPT !.dest = "freed"])
                        ELSE SetT([t EXCEPT !.src = "freed"])
             /\ i' = IF f = 0 THEN i + 1 ELSE i
             /\ HipCalls(f, e, k, IF i + 1 < n_transfers THEN "fini" ELSE "return")
    /\ UNCHANGED <<argc, n_parsed, j, is_transfering, thread, is_access,
                   cur_device, numa_preferred, streams, lookup_log, pref_log,
                   host_log, dev_log, check_log, peer_log, sync_log,
                   report_log>>

\* free(hits->transfer) at line 421, then main returns 0
main_return ==
    /\ pc = "return"
    /\ free_log' = Append(free_log, [chan |-> -1, what |-> "transfer", by |-> "free"])
    /\ Exit(0)
    /\ NoHipCall
    /\ UNCHANGED <<argc, n_parsed, hits, i, j, is_transfering, thread,
                   is_access, cur_device, numa_preferred, streams, lookup_log,
                   pref_log, host_log, dev_log, check_log, peer_log, sync_log,
                   report_log>>

(***************************************************************************)
(* What the logs say about a transfer c (0-based, as in the code)          *)
(***************************************************************************)
ChanIds == 0..(hits.n_transfers - 1)

RECURSIVE CountOp(_, _)
CountOp(q, op) ==
    IF q = <<>> THEN 0
    ELSE (IF Head(q).op = op THEN Head(q).n ELSE 0) + CountOp(Tail(q), op)

StartCount(c) == CountOp(streams[c + 1], "start")
StopCount(c) == CountOp(streams[c + 1], "stop")
Copies(c) == CountOp(streams[c + 1], "copy")

NumLog(log, c) == Cardinality({k \in DOMAIN log : log[k].chan = c})
HasLog(log, c) == \E k \in DOMAIN log : log[k].chan = c

Allocated(c) ==
    IF hits.transfer[c + 1].type = "DTOD"
    THEN NumLog(dev_log, c) = 2
    ELSE NumLog(host_log, c) = 1 /\ NumLog(dev_log, c) = 1

Synced(c) == HasLog(sync_log, c)
Finalized(c) == Allocated(c) /\ Copies(c) = n_iter /\ Synced(c)
LookupFailed(c) == \E k \in DOMAIN lookup_log :
                      lookup_log[k].chan = c /\ ~lookup_log[k].ok

Terminated == pc \in {"exited", "aborted"}
\* argp_parse accepted the command line
Configured == n_parsed = argc - 1 /\ hits.n_transfers >= 1
\* the issue loop is over and the process still runs
AfterIssue == pc \in {"sync", "completed", "report", "fini", "return"}

(***************************************************************************)
(***************************************************************************)
(* heart_beat (lines 487-499), the thread main creates at line 514.  It    *)
(* dies with the process.  What it prints is not part of the state.        *)
(***************************************************************************)
\* what the unsynchronised read of *is_transfering may yield: the value main
\* stored, or the value it held before
FlagRead == IF is_transfering THEN {TRUE} ELSE {TRUE, FALSE}

\* line 492: the loop test
heart_beat_test ==
    /\ ~Terminated
    /\ thread = "test"
    /\ \E v \in FlagRead : thread' = IF v THEN "sleep" ELSE "returned"
    /\ UNCHANGED <<argc, n_parsed, hits, pc, i, j, is_transfering, is_access,
                   cur_device, numa_preferred, streams, lookup_log, pref_log,
                   host_log, dev_log, check_log, peer_log, sync_log,
                   report_log, free_log, n_calls, fail_code, fail_calls,
                   exit_code>>

\* lines 494-495: sleep(1); printf(".")
heart_beat_sleep ==
    /\ ~Terminated
    /\ thread = "sleep"
    /\ thread' = "test"
    /\ UNCHANGED <<argc, n_parsed, hits, pc, i, j, is_transfering, is_access,
                   cur_device, numa_preferred, streams, lookup_log, pref_log,
                   host_log, dev_log, check_log, peer_log, sync_log,
                   report_log, free_log, n_calls, fail_code, fail_calls,
                   exit_code>>

(* Claims                                                                  *)
(***************************************************************************)
\* C1: a transfer's is_started goes from false to true only in the call that
\* issues iteration 0 on that transfer, in which the start event is recorded
\* too; the start event is recorded at most once; once the run has set the
\* flag it is not cleared (the only true -> false step is
\* _transfer_init_common clearing the value malloc left, before anything was
\* enqueued); and with n_iter >= 1 every transfer is started once the issue
\* loop is over.
C1_StartedOnce ==
    [][\A c \in DOMAIN hits.transfer :
         LET t  == hits.transfer[c]
             t2 == hits'.transfer[c]
         IN  /\ (~t.is_started /\ t2.is_started) =>
                   /\ pc = "issue" /\ i = 0 /\ j + 1 = c
                   /\ CountOp(streams[c], "start") = 0
                   /\ CountOp(streams'[c], "start") = 1
             /\ (t.is_started /\ ~t2.is_started) =>
                   /\ pc = "common" /\ i + 1 = c
                   /\ streams[c] = <<>>
             /\ CountOp(streams'[c], "start") <= 1
             /\ (pc = "issue" /\ pc' = "sync") => t2.is_started
      ]_vars

C1_Witness ==
    /\ pc = "issue" /\ i = 1 /\ j = 1
    /\ \A c \in ChanIds : hits.transfer[c + 1].is_started /\ StartCount(c) = 1

\* C2 (as claimed): once the issue loop is over, stop was recorded exactly
\* once on every transfer, for every accepted n_iter >= 0.
C2_StopOnceAnyIter ==
    AfterIssue => \A c \in ChanIds : StopCount(c) = 1

\* C3: a device buffer of a DTOD transfer exists only after
\* hipDeviceCanAccessPeer reported access for that transfer; after a negative
\* check the process has exited with 1 and neither that transfer nor a later
\* one has any buffer.
C3_PeerCheckFirst ==
    /\ \A k \in DOMAIN dev_log :
         hits.transfer[dev_log[k].chan + 1].type = "DTOD" =>
           \E m \in DOMAIN check_log :
             check_log[m].chan = dev_log[k].chan /\ check_log[m].access = 1
    /\ \A m \in DOMAIN check_log :
         check_log[m].access = 0 =>
           /\ pc = "exited" /\ exit_code = EXIT_ERROR
           /\ \A k \in DOMAIN dev_log : dev_log[k].chan < check_log[m].chan
           /\ \A k \in DOMAIN host_log : host_log[k].chan < check_log[m].chan

C3_Witness ==
    /\ pc = "exited"
    /\ \E m \in DOMAIN check_log :
         check_log[m].access = 0 /\ check_log[m].chan = 1
    /\ Allocated(0)

\* what C4 promises at termination
C4_Success ==
    /\ exit_code = 0
    /\ pc = "exited"
    /\ \A c \in ChanIds :
         /\ Finalized(c)
         /\ hits.transfer[c + 1].is_started
         /\ StartCount(c) = 1
         /\ StopCount(c) = 1

C4_AllCallsSucceeded ==
    /\ Terminated /\ Configured /\ n_iter >= 1
    /\ fail_code = hipSuccess
    /\ \A m \in DOMAIN check_log : check_log[m].access = 1

NoNullHostBuffer ==
    \A c \in ChanIds :
      hits.transfer[c + 1].dest # "null" /\ hits.transfer[c + 1].src # "null"

\* C4 (as claimed): when every HIP call succeeded and peer access was
\* reported, the process has ended with exit code 0, every transfer
\* finalized, started, with one start and one stop recorded.
C4_ExitZeroIfCallsSucceed == C4_AllCallsSucceeded => C4_Success

\* C4 (amended): the same, provided also that no host allocation (malloc, or
\* a successful hipHostMalloc) gave a NULL buffer, on which assert aborts.
C4_ExitZeroIfCallsAndHostAllocSucceed ==
    (C4_AllCallsSucceeded /\ NoNullHostBuffer) => C4_Success

C4_Witness ==
    /\ pc = "exited" /\ exit_code = 0
    /\ hits.n_transfers = 2 /\ n_iter >= 2
    /\ \E c \in ChanIds : hits.transfer[c + 1].type = "DTOD"

\* C5 (as claimed): once a HIP call has returned a failure code the process
\* has exited with that code, and no HIP call was made after it.
C5_ExitWithFailureCode ==
    fail_code # hipSuccess =>
      pc = "exited" /\ exit_code = fail_code /\ n_calls = fail_calls

\* C6: a result is printed only when every transfer was allocated, had
\* n_iter copies submitted and was synchronised; and unless every transfer
\* was allocated nothing was ever enqueued on any stream.
C6_AllOrNothing ==
    /\ report_log # <<>> => \A c \in ChanIds : Finalized(c)
    /\ (\E c \in ChanIds : streams[c + 1] # <<>>) =>
         \A c \in ChanIds : Allocated(c)

C6_Witness ==
    /\ Terminated /\ exit_code # 0
    /\ hits.n_transfers = 2
    /\ Allocated(0) /\ ~Allocated(1)
    /\ fail_code # hipSuccess

\* C7 (as claimed): the host buffer of a transfer whose NUMA lookup failed
\* was allocated with no NUMA preference in effect.
C7_NoPreferenceAfterFailedLookup ==
    \A k \in DOMAIN host_log :
      LookupFailed(host_log[k].chan) => host_log[k].pref = -1

\* C8: set_numa_affinity never ends the process; after a failed lookup the
\* transfer's numa_node is -1 and numa_set_preferred was not called for it;
\* and without is_numa_aware numa_set_preferred is never called.
C8_FailedLookupIsSoft ==
    [][/\ pc = "numa" => pc' \in {"dtoh", "htod"}
       /\ \A k \in DOMAIN lookup_log' :
            ~lookup_log'[k].ok =>
              /\ hits'.transfer[lookup_log'[k].chan + 1].numa_node = -1
              /\ ~\E m \in DOMAIN pref_log' :
                    pref_log'[m].chan = lookup_log'[k].chan
       /\ "is_numa_aware" \notin hits'.alloc_flags =>
            pref_log' = <<>> /\ numa_preferred' = -1
      ]_vars

C8_Witness ==
    /\ pc = "exited" /\ exit_code = 0
    /\ \E c \in ChanIds : LookupFailed(c)

\* C9 (as claimed): after a successful run every buffer, stream and event
\* acquired in the allocation phase has been released.
C9_AllReleased ==
    (pc = "exited" /\ exit_code = 0) =>
      \A c \in ChanIds :
        LET t == hits.transfer[c + 1]
        IN  /\ t.dest = "freed" /\ t.src = "freed"
            /\ t.stream = "destroyed"
            /\ t.start = "destroyed" /\ t.stop = "destroyed"

\* C10 (as claimed): every byte count used for an allocation or a copy is
\* at most N_SIZE_MAX.
C10_SizeWithinMax ==
    /\ \A k \in DOMAIN host_log : host_log[k].bytes <= N_SIZE_MAX
    /\ \A k \in DOMAIN dev_log : dev_log[k].bytes <= N_SIZE_MAX
    /\ \A c \in Chans : \A k \in DOMAIN streams[c] :
         streams[c][k].bytes <= N_SIZE_MAX

\* C11: in every state, every transfer parse_opt has stored is a DTOD
\* transfer exactly when its device2 is non-negative; a DTOH or HTOD transfer
\* has device2 = -1.
C11_Device2IffDtod ==
    \A c \in ChanIds :
      LET t == hits.transfer[c + 1]
      IN  /\ (t.type = "DTOD") <=> (t.device2 >= 0)
          /\ t.type \in {"DTOH", "HTOD"} => t.device2 = -1

\* an accepted command line with a peer transfer and a host transfer, past
\* the allocation phase
C11_Witness ==
    /\ Configured
    /\ pc = "issue"
    /\ \E c, d \in ChanIds : /\ hits.transfer[c + 1].type = "DTOD"
                             /\ hits.transfer[d + 1].type # "DTOD"

\* bytes * iters / (ms / 1000), in units of 10^9 bytes per second
TotalOverElapsed(bytes, iters, ms) ==
    RatDiv(RatMul(Rat(bytes, GIGA), Rat(iters, 1)), Rat(ms, KILO))

\* C12: the figure printed for a transfer is (bytes per iteration * n_iter)
\* divided by the elapsed time between the start and the stop event of that
\* same transfer (printed in GB/s, i.e. 10^9 bytes per second); for 10^9
\* bytes, 10 iterations and 2 s it is 5 GB/s = 5 * 10^9 bytes per second.
C12_BandwidthIsTotalOverElapsed ==
    /\ \A k \in DOMAIN report_log :
         LET r == report_log[k]
         IN  /\ r.start = r.chan /\ r.stop = r.chan
             /\ r.gbps = TotalOverElapsed(n_bytes, n_iter, r.dt_msec)
    /\ Bandwidth(GBytes(GIGA), Seconds(2000), 10) = <<5, 1>>

\* two transfers of N_ITER_DEFAULT iterations each were reported, the first
\* over 2 s
C12_Witness ==
    /\ Len(report_log) = 2
    /\ n_iter = N_ITER_DEFAULT
    /\ report_log[1].dt_msec = 2000
    /\ report_log[2].gbps # <<0, 1>>

\* C13: the issue loop is round-robin.  A step submits at most one copy;
\* the copy of iteration index k on transfer c is submitted when every
\* earlier transfer already has its copy of index k and no later transfer
\* has it yet; hence at every point the numbers of copies submitted on two
\* transfers differ by at most one, and an earlier transfer never has fewer
\* than a later one.
C13_RoundRobin ==
    [][ /\ \A c \in ChanIds :
             Copies(c)' # Copies(c) =>
               /\ Copies(c)' = Copies(c) + 1
               /\ \A d \in ChanIds :
                    /\ d < c => Copies(d) = Copies(c) + 1
                    /\ d > c => Copies(d) = Copies(c)
                    /\ d # c => Copies(d)' = Copies(d)
        /\ \A c, d \in ChanIds :
             c < d => /\ Copies(c)' >= Copies(d)'
                      /\ Copies(c)' - Copies(d)' <= 1 ]_vars

\* in the middle of iteration index 1 of two transfers: the first has two
\* copies, the second one
C13_Witness ==
    /\ pc = "issue"
    /\ hits.n_transfers = 2
    /\ i = 1 /\ j = 1
    /\ Copies(0) = 2 /\ Copies(1) = 1

\* the process is past the synchronisation loop
AfterSync ==
    \/ pc \in {"completed", "report", "fini", "return"}
    \/ pc = "exited" /\ exit_code = 0

\* C14: hipDeviceSynchronize is called once per transfer, in transfer
\* order, on the transfer's device; the first call is made only when all
\* n_iter copies of every transfer have been submitted, no copy is submitted
\* after it, and past the synchronisation loop every transfer has been
\* waited for.
C14_WaitAfterAllIssued ==
    [][ /\ \A k \in DOMAIN sync_log' :
             /\ sync_log'[k].chan = k - 1
             /\ sync_log'[k].dev = hits.transfer[k].device
        /\ sync_log' # <<>> => \A c \in ChanIds : Copies(c)' = n_iter
        /\ sync_log # <<>> => streams' = streams
        /\ sync_log' # sync_log =>
             /\ pc = "sync"
             /\ sync_log' = Append(sync_log, [chan |-> i, dev |-> T.device])
        /\ AfterSync' => Len(sync_log') = n_transfers ]_vars

\* both of two transfers were waited for after 100 copies each
C14_Witness ==
    /\ pc = "completed"
    /\ hits.n_transfers = 2
    /\ Len(sync_log) = 2
    /\ Copies(0) = N_ITER_DEFAULT /\ Copies(1) = N_ITER_DEFAULT

\* The state of transfer c, read off what has happened to it:
\* 0 Uninitialized, 1 Ready (buffers allocated), 2 Running (is_started set),
\* 3 Stopped (stop recorded), 4 Finalized (stopped and waited for).
ChannelState(c) ==
    IF ~Allocated(c) THEN 0
    ELSE IF ~hits.transfer[c + 1].is_started THEN 1
    ELSE IF StopCount(c) = 0 THEN 2
    ELSE IF ~Synced(c) THEN 3
    ELSE 4

\* C15: the state of a transfer never decreases; it increases only in the
\* step that triggers the transition: Uninitialized -> Ready in the
\* transfer's own allocation step, Ready -> Running in the call issuing
\* iteration 0 on it, Running -> Stopped in the call issuing iteration
\* n_iter - 1 on it (both in the same call when n_iter = 1), Stopped ->
\* Finalized in the synchronisation of that transfer; a stop event is only
\* recorded on a started transfer; and nothing is submitted on a Finalized
\* transfer.
C15_StateOnlyAdvances ==
    [][ \A c \in ChanIds :
          LET s  == ChannelState(c)
              s2 == ChannelState(c)'
          IN  /\ s2 >= s
              /\ (s = 0 /\ s2 > 0) =>
                   /\ s2 = 1
                   /\ pc \in {"dtoh", "htod", "dtod_alloc"}
                   /\ i = c
              /\ (s = 1 /\ s2 > 1) =>
                   /\ pc = "issue" /\ j = c /\ i = 0
                   /\ s2 = 2 \/ (s2 = 3 /\ n_iter = 1)
              /\ (s = 2 /\ s2 > 2) =>
                   /\ pc = "issue" /\ j = c /\ i = n_iter - 1
                   /\ s2 = 3
              /\ (s = 3 /\ s2 > 3) => pc = "sync" /\ i = c
              /\ StopCount(c)' >= 1 => hits'.transfer[c + 1].is_started
              /\ s = 4 => streams'[c + 1] = streams[c + 1] ]_vars

\* a run in which the second of two transfers went through all five states
C15_Witness ==
    /\ pc = "completed"
    /\ hits.n_transfers = 2
    /\ n_iter = N_ITER_DEFAULT
    /\ ChannelState(0) = 4 /\ ChannelState(1) = 4

\* the queue holding a start event, n copies of transfer c, a stop event
Mark(op) == [op |-> op, kind |-> "event", bytes |-> 0, n |-> 1]
StartCopiesStop(c, n) ==
    LET t    == hits.transfer[c + 1]
        kind == IF t.type = "DTOD" THEN "hipMemcpyPeer"
                ELSE IF t.type = "DTOH" THEN "hipMemcpyDeviceToHost"
                ELSE "hipMemcpyHostToDevice"
    IN  IF n = 0 THEN <<Mark("start"), Mark("stop")>>
        ELSE <<Mark("start"),
               [op |-> "copy", kind |-> kind, bytes |-> n_bytes, n |-> n],
               Mark("stop")>>

\* C16 (as claimed): once the issue loop is over, the queue of every
\* transfer's stream holds the start event, then exactly n_iter copies, then
\* the stop event, and for n_iter = 1 no state in between shows one event
\* without the other.
C16_StartCopiesStop ==
    /\ AfterIssue =>
         \A c \in ChanIds : streams[c + 1] = StartCopiesStop(c, n_iter)
    /\ (n_iter = 1 /\ ~Terminated) =>
         \A c \in ChanIds : StartCount(c) = StopCount(c)

\* C17: is_transfering is set when main declares it (line 510) and written
\* once more, from true to false, by main at line 535, when
\* hipDeviceSynchronize has returned for every transfer; past that point it
\* stays false; the heartbeat thread is created after the allocation phase
\* and before anything is submitted on a stream; a step of the heartbeat
\* thread changes nothing but its own position.
C17_CompletionWrittenOnceAfterWaits ==
    [][ /\ is_transfering' # is_transfering =>
             \/ pc = "main" /\ is_transfering'
             \/ /\ pc = "completed"
                /\ ~is_transfering'
                /\ \A c \in ChanIds : Synced(c)
        /\ AfterSync' /\ pc' # "completed" => ~is_transfering'
        /\ (thread = "none" /\ thread' # "none") =>
             /\ pc = "main"
             /\ \A c \in ChanIds : Allocated(c) /\ streams[c + 1] = <<>>
        /\ (\E c \in ChanIds : streams'[c + 1] # <<>>) => thread' # "none"
        /\ (thread # "none" /\ thread' # thread) =>
             UNCHANGED <<is_transfering, hits, pc, streams>> ]_vars

\* two transfers were waited for, main cleared the flag and the heartbeat
\* thread saw it and returned
C17_Witness ==
    /\ pc = "report"
    /\ hits.n_transfers = 2
    /\ n_iter = 2
    /\ ~is_transfering
    /\ thread = "returned"

\* the entries of log about transfer c that name field what
Entries(log, c, what) ==
    {k \in DOMAIN log : log[k].chan = c /\ log[k].what = what}

\* C18: a DTOH or HTOD transfer whose allocation succeeded holds exactly one
\* device buffer, on its device, and exactly one host buffer, pinned exactly
\* when the is_pinned flag is set; a DTOD transfer holds exactly one device
\* buffer on each of its devices, dest on device and src on device2, and no
\* host buffer; fini releases only the host buffers of DTOH and HTOD
\* transfers, each at most once and by hipHostFree exactly when it was
\* pinned, and after a successful run each of them has been released.
C18_BuffersByDirection ==
    \A c \in ChanIds :
         LET t == hits.transfer[c + 1]
         IN  IF t.type = "DTOD"
             THEN /\ NumLog(host_log, c) = 0
                  /\ NumLog(free_log, c) = 0
                  /\ \A k \in DOMAIN dev_log : dev_log[k].chan = c =>
                       dev_log[k].dev = (IF dev_log[k].what = "dest"
                                         THEN t.device ELSE t.device2)
                  /\ Cardinality(Entries(dev_log, c, "dest")) <= 1
                  /\ Cardinality(Entries(dev_log, c, "src")) <= 1
                  /\ Allocated(c) =>
                       /\ Cardinality(Entries(dev_log, c, "dest")) = 1
                       /\ Cardinality(Entries(dev_log, c, "src")) = 1
             ELSE LET host == IF t.type = "DTOH" THEN "dest" ELSE "src"
                      dev  == IF t.type = "DTOH" THEN "src" ELSE "dest"
                  IN  /\ NumLog(host_log, c) <= 1
                      /\ NumLog(dev_log, c) <= 1
                      /\ NumLog(free_log, c) <= 1
                      /\ \A k \in DOMAIN host_log : host_log[k].chan = c =>
                           /\ host_log[k].what = host
                           /\ host_log[k].pinned <=>
                                ("is_pinned" \in hits.alloc_flags)
                      /\ \A k \in DOMAIN dev_log : dev_log[k].chan = c =>
                           /\ dev_log[k].what = dev
                           /\ dev_log[k].dev = t.device
                      /\ \A k \in DOMAIN free_log : free_log[k].chan = c =>
                           /\ free_log[k].what = host
                           /\ \E h \in DOMAIN host_log :
                                /\ host_log[h].chan = c
                                /\ (free_log[k].by = "hipHostFree")
                                     <=> host_log[h].pinned
                                /\ (free_log[k].by = "free")
                                     <=> ~host_log[h].pinned
                      /\ Allocated(c) => /\ NumLog(host_log, c) = 1
                                         /\ NumLog(dev_log, c) = 1
                      /\ (pc = "exited" /\ exit_code = 0) =>
                           NumLog(free_log, c) = 1

\* a finished run that released a pinned host buffer and held a DTOD
\* transfer
C18_Witness ==
    /\ pc = "exited" /\ exit_code = 0
    /\ hits.n_transfers = 2
    /\ \E c, d \in ChanIds :
         /\ hits.transfer[c + 1].type = "DTOD"
         /\ hits.transfer[d + 1].type # "DTOD"
         /\ \E k \in DOMAIN free_log :
              free_log[k].chan = d /\ free_log[k].by = "hipHostFree"

\* C19: a step of the reporting loop changes no field of any transfer (nor
\* any other field of hits) and enqueues nothing on any stream.
C19_ReportIsReadOnly ==
    [][ pc = "report" => /\ hits' = hits
                         /\ streams' = streams ]_vars

\* the results of two transfers have been printed
C19_Witness ==
    /\ pc = "fini"
    /\ hits.n_transfers = 2
    /\ Len(report_log) = 2
    /\ i = 0

\* C20 (as claimed): during the allocation phase hipDeviceEnablePeerAccess
\* is called at most once for each ordered pair (device, device2), also when
\* several DTOD transfers name the same pair.
C20_PeerAccessOncePerPair ==
    \A k, m \in DOMAIN peer_log :
      (peer_log[k].dev = peer_log[m].dev /\ peer_log[k].peer = peer_log[m].peer)
        => k = m

\* C21 (as claimed): the reporting loop calls hipEventElapsedTime for a
\* transfer (the second HIP call of its round) only when the start and the
\* stop event of that transfer have been recorded and the transfer has been
\* waited for, for every accepted n_iter, n_iter = 0 included.
C21_QueryOnlyMeasured ==
    [][ (pc = "report" /\ n_calls' = n_calls + 2) =>
          /\ StartCount(i) = 1
          /\ StopCount(i) = 1
          /\ Synced(i) ]_vars

(***************************************************************************)
(* The main thread from the call of argp_parse on.  The heartbeat thread   *)
(* writes no variable main reads; its steps are interleaved with main's in *)
(* SpecHeartBeat below.                                                    *)
(***************************************************************************)
Next ==
    \/ parse_opt_d
    \/ parse_opt_h
    \/ parse_opt_i
    \/ parse_opt_n
    \/ parse_opt_m
    \/ parse_opt_p
    \/ parse_opt_s
    \/ parse_opt_end
    \/ transfer_init_common
    \/ set_numa_affinity
    \/ dtoh_transfer_init
    \/ htod_transfer_init
    \/ dtod_transfer_init_check
    \/ dtod_transfer_init_alloc
    \/ main_start
    \/ direct_transfer
    \/ dtod_transfer
    \/ main_synchronize
    \/ main_completed
    \/ main_report
    \/ fini
    \/ main_return

Spec == Init /\ [][Next]_vars
(***************************************************************************)
(* The program with its heartbeat thread, started where argp_parse has     *)
(* returned for a command line --iter=k followed by one transfer option    *)
(* per slot                                                                *)
(***************************************************************************)
MaxIter == 2

\* the transfers parse_opt accepts from IdArgs and PairArgs
AcceptedTransfers ==
    {Transfer_t(type, d, -1, TRUE, 0) : type \in {"DTOH", "HTOD"}, d \in 0..1}
      \cup {Transfer_t("DTOD", 1, 0, TRUE, 0), Transfer_t("DTOD", 0, 1, TRUE, 0)}

InitAccepted ==
    /\ \E n \in 1..Capacity, k \in 0..MaxIter :
         \E ts \in [1..n -> AcceptedTransfers] :
           /\ argc = n + 2
           /\ hits = [transfer |-> ts, n_transfers |-> n, n_iter |-> k,
                      n_size |-> N_SIZE_DEFAULT, alloc_flags |-> Flags]
    /\ n_parsed = argc - 1
    /\ pc = "common"
    /\ i = 0
    /\ j = 0
    /\ is_transfering = FALSE
    /\ thread = "none"
    /\ is_access = 0
    /\ cur_device = 0
    /\ numa_preferred = -1
    /\ streams = [c \in Chans |-> <<>>]
    /\ lookup_log = <<>>
    /\ pref_log = <<>>
    /\ host_log = <<>>
    /\ dev_log = <<>>
    /\ check_log = <<>>
    /\ peer_log = <<>>
    /\ sync_log = <<>>
    /\ report_log = <<>>
    /\ free_log = <<>>
    /\ n_calls = 0
    /\ fail_code = hipSuccess
    /\ fail_calls = 0
    /\ exit_code = RUNNING

NextWithHeartBeat ==
    \/ transfer_init_common
    \/ set_numa_affinity
    \/ dtoh_transfer_init
    \/ htod_transfer_init
    \/ dtod_transfer_init_check
    \/ dtod_transfer_init_alloc
    \/ main_start
    \/ direct_transfer
    \/ dtod_transfer
    \/ main_synchronize
    \/ main_completed
    \/ main_report
    \/ fini
    \/ main_return
    \/ heart_beat_test
    \/ heart_beat_sleep

SpecHeartBeat == InitAccepted /\ [][NextWithHeartBeat]_vars
====
